---- MODULE Spec2Model ----
(***************************************************************************)
(* Particle swarm optimizer: PSOType<InertiaWeight>::Optimize and          *)
(* InertiaWeight::Update.                                                  *)
(*                                                                         *)
(* Numbers.  A double is modelled by an integer, or by NaN.  One unit of   *)
(* the random source is 1/RandDen, and the acceleration coefficients are   *)
(* multiples of RandDen, so that every product the code forms is exact.    *)
(* Matrices are stored as Armadillo stores them: n_rows, n_cols and the    *)
(* elements in column-major order (mem[1] is element 0).                   *)
(***************************************************************************)
EXTENDS Integers, Sequences, FiniteSets, TLC

\* ---------------------------------------------------------------- bounds
MaxPop == 2
MaxIter == 2

\* ------------------------------------------------------------- constants
DBL_MAX == 1000000
NaN == -1000000
RandDen == 2
Target == 2

StartValues == {1, 2}
InertiaValues == {0, 1}
AccelValues == {0, RandDen}
ToleranceValues == {1, 2}
RandValues == {0, 1}
Functions == {"Sphere", "Counter"}

\* What a read outside a matrix's elements, or of a local that was never
\* assigned, may yield: some number, or a bit pattern that is no number.
Indeterminate == {0, NaN}

\* ------------------------------------------------- floating-point values
FAdd(a, b) == IF a = NaN \/ b = NaN THEN NaN ELSE a + b

FSub(a, b) == IF a = NaN \/ b = NaN THEN NaN ELSE a - b

FMul(a, b) == IF a = NaN \/ b = NaN THEN NaN ELSE a * b

\* a < b on doubles: false as soon as one side is NaN.
FLess(a, b) == a # NaN /\ b # NaN /\ a < b

\* coefficient * (one draw of the random source), the draw being r / RandDen.
FScale(c, r) == (c * r) \div RandDen

\* -------------------------------------------------------------- matrices
Mat(nr, nc, m) == [n_rows |-> nr, n_cols |-> nc, mem |-> m]

n_elem(M) == M.n_rows * M.n_cols

\* The shapes <<n_rows, n_cols>> of the starting point: a single element, a
\* column and a row.
Shapes == {<<1, 1>>, <<2, 1>>, <<1, 2>>}

MatsOver(S) ==
  UNION { { Mat(sh[1], sh[2], m) : m \in [1..(sh[1] * sh[2]) -> S] } : sh \in Shapes }

\* M(r, c), r and c counted from 0: the element at r + c * n_rows.
At(M, r, c) == M.mem[r + c * M.n_rows + 1]

\* M[idx], the unchecked linear element access; g is what the read yields
\* when idx is not an element of M.
Elem(M, idx, g) == IF idx < n_elem(M) THEN M.mem[idx + 1] ELSE g

\* A + B, elementwise.
MatAdd(A, B) == Mat(A.n_rows, A.n_cols, [j \in 1..n_elem(A) |-> FAdd(A.mem[j], B.mem[j])])

\* arma::mat(n_rows, n_cols, fill::randu): every matrix of draws.
Randu(nr, nc) == { Mat(nr, nc, m) : m \in [1..(nr * nc) -> RandValues] }

\* ------------------------------------------------------------- objective
RECURSIVE SumSq(_, _)
SumSq(M, j) ==
  IF j = 0 THEN 0
  ELSE FAdd(SumSq(M, j - 1), FMul(FSub(M.mem[j], Target), FSub(M.mem[j], Target)))

\* function.Evaluate(coordinates): "Sphere" is the convex quadratic with
\* its minimum at Target; "Counter" is an objective with state, it returns
\* the number of evaluations made before this one.
EvaluateFn(f, coordinates, calls) ==
  IF f = "Sphere" THEN SumSq(coordinates, n_elem(coordinates)) ELSE calls

VARIABLES
  dimension, interiaWeight, cognitiveAcceleration, socialAcceleration,
  maxIterations, tolerance,
  function, calls,
  iterate,
  particlePosition, particleVelocity, bestParticlePosition, bestSwarmPosition,
  currentObjective, lastObjectiveIndividual, lastObjectiveGlobal,
  i, k,
  pc, exit, result,
  evaluated, sweep, first, updates, moves

config == <<dimension, interiaWeight, cognitiveAcceleration, socialAcceleration,
            maxIterations, tolerance, function>>

swarm == <<particlePosition, particleVelocity>>

bests == <<bestParticlePosition, bestSwarmPosition,
           lastObjectiveIndividual, lastObjectiveGlobal>>

\* What the call has done so far: the values evaluated, those of the
\* current iteration in order, the very first one, and how often the
\* velocities and the positions were updated.  Only the properties read
\* these.
history == <<evaluated, sweep, first, updates, moves>>

vars == <<config, calls, iterate, swarm, bests, currentObjective,
          i, k, pc, exit, result, history>>

\* The empty matrix of a default-constructed arma::mat.
Empty == Mat(0, 0, <<>>)

Init ==
  /\ dimension \in 1..MaxPop
  /\ interiaWeight \in InertiaValues
  /\ cognitiveAcceleration \in AccelValues
  /\ socialAcceleration \in AccelValues
  /\ maxIterations \in 0..MaxIter
  /\ tolerance \in ToleranceValues
  /\ function \in Functions
  /\ calls = 0
  /\ iterate \in MatsOver(StartValues)
  /\ particlePosition = <<>>
  /\ particleVelocity = <<>>
  /\ bestParticlePosition = Empty
  /\ bestSwarmPosition = Empty
  /\ currentObjective = 0
  /\ lastObjectiveIndividual = 0
  /\ lastObjectiveGlobal = 0
  /\ i = 0
  /\ k = 0
  /\ pc = "call"
  /\ exit = "none"
  /\ result = 0
  /\ evaluated = {}
  /\ sweep = <<>>
  /\ first = 0
  /\ updates = 0
  /\ moves = 0

\* Optimize, up to the loop: sizes the cubes, copies iterate into every
\* slice of both, takes both best positions from slice 0.  currentObjective
\* is declared without a value.
Begin ==
  /\ pc = "call"
  /\ particlePosition' = [s \in 1..dimension |-> iterate]
  /\ particleVelocity' = [s \in 1..dimension |-> iterate]
  /\ bestParticlePosition' = iterate
  /\ bestSwarmPosition' = iterate
  /\ currentObjective' \in Indeterminate
  /\ lastObjectiveIndividual' = DBL_MAX
  /\ lastObjectiveGlobal' = DBL_MAX
  /\ i' = 0
  /\ pc' = "loop"
  /\ UNCHANGED <<config, calls, iterate, k, exit, result, history>>

\* Variant: the loop condition with <= for <.
LoopTestInclusive == i <= maxIterations

\* The condition of for (i = 0; i < maxIterations; ++i).
LoopTest == i < maxIterations

\* The condition holds, the body starts.
EnterIteration ==
  /\ pc = "loop"
  /\ LoopTest
  /\ k' = 0
  /\ sweep' = <<>>
  /\ pc' = "evaluate"
  /\ UNCHANGED <<config, calls, iterate, swarm, bests, currentObjective,
                 i, exit, result, evaluated, first, updates, moves>>

\* The condition fails: return lastObjectiveGlobal.
ReturnGlobal ==
  /\ pc = "loop"
  /\ ~LoopTest
  /\ result' = lastObjectiveGlobal
  /\ exit' = "maxIterations"
  /\ pc' = "done"
  /\ UNCHANGED <<config, calls, iterate, swarm, bests, currentObjective,
                 i, k, history>>

\* Variant: the individual best is taken from every evaluation.
IsIndividualBestAlways(value) == TRUE

\* The condition of if (currentObjective < lastObjectiveIndividual).
IsIndividualBest(value) == FLess(value, lastObjectiveIndividual)

\* One pass of the loop over k: evaluate particle k, keep it if it beats
\* the individual best.
Evaluate ==
  /\ pc = "evaluate"
  /\ k < dimension
  /\ LET value == EvaluateFn(function, particlePosition[k + 1], calls)
     IN /\ currentObjective' = value
        /\ calls' = calls + 1
        /\ evaluated' = evaluated \cup {value}
        /\ sweep' = Append(sweep, value)
        /\ first' = IF calls = 0 THEN value ELSE first
        /\ IF IsIndividualBest(value)
           THEN /\ bestParticlePosition' = particlePosition[k + 1]
                /\ lastObjectiveIndividual' = value
           ELSE UNCHANGED <<bestParticlePosition, lastObjectiveIndividual>>
  /\ k' = k + 1
  /\ UNCHANGED <<config, iterate, swarm, bestSwarmPosition, lastObjectiveGlobal,
                 i, pc, exit, result, updates, moves>>

\* Variant: the global best takes the value but not the position.
UpdateGlobalObjectiveOnly ==
  /\ pc = "evaluate"
  /\ ~(k < dimension)
  /\ IF FLess(lastObjectiveIndividual, lastObjectiveGlobal)
     THEN /\ bestSwarmPosition' = bestSwarmPosition
          /\ lastObjectiveGlobal' = lastObjectiveIndividual
     ELSE UNCHANGED <<bestSwarmPosition, lastObjectiveGlobal>>
  /\ pc' = "velocity"
  /\ UNCHANGED <<config, calls, iterate, swarm, bestParticlePosition,
                 lastObjectiveIndividual, currentObjective,
                 i, k, exit, result, history>>

\* After the loop over k: the global best takes the individual best if
\* that is lower.
UpdateGlobal ==
  /\ pc = "evaluate"
  /\ ~(k < dimension)
  /\ IF FLess(lastObjectiveIndividual, lastObjectiveGlobal)
     THEN /\ bestSwarmPosition' = bestParticlePosition
          /\ lastObjectiveGlobal' = lastObjectiveIndividual
     ELSE UNCHANGED <<bestSwarmPosition, lastObjectiveGlobal>>
  /\ pc' = "velocity"
  /\ UNCHANGED <<config, calls, iterate, swarm, bestParticlePosition,
                 lastObjectiveIndividual, currentObjective,
                 i, k, exit, result, history>>

\* The particles whose index is no element of the best-position matrices.
OutOfRange == { p \in 0..(dimension - 1) : ~(p < n_elem(bestParticlePosition)) }

\* The new slice of particleVelocity for one particle: pb and gb are the
\* scalars bestParticlePosition[p] and bestSwarmPosition[p], d1 and d2 the
\* draws r1 and r2.
UpdatedSlice(pos, vel, pb, gb, w, c1, c2, d1, d2) ==
  Mat(vel.n_rows, vel.n_cols,
      [j \in 1..n_elem(vel) |->
         FAdd(FAdd(FMul(w, vel.mem[j]),
                   FMul(FScale(c1, d1.mem[j]), FSub(pb, pos.mem[j]))),
              FMul(FScale(c2, d2.mem[j]), FSub(gb, pos.mem[j])))])

\* InertiaWeight::Update: the new particleVelocity, slice by slice.  g
\* gives, for each particle in OutOfRange, the two values its reads yield.
InertiaWeightUpdate(d1, d2, g) ==
  [p \in 1..dimension |->
     UpdatedSlice(particlePosition[p], particleVelocity[p],
                  Elem(bestParticlePosition, p - 1,
                       IF p - 1 \in OutOfRange THEN g[p - 1][1] ELSE 0),
                  Elem(bestSwarmPosition, p - 1,
                       IF p - 1 \in OutOfRange THEN g[p - 1][2] ELSE 0),
                  interiaWeight, cognitiveAcceleration, socialAcceleration, d1, d2)]

\* velocityType.Update(...): r1 and r2 are drawn once, then every slice is
\* updated.
UpdateVelocity ==
  /\ pc = "velocity"
  /\ \E d1 \in Randu(iterate.n_rows, iterate.n_cols),
        d2 \in Randu(iterate.n_rows, iterate.n_cols),
        g \in [OutOfRange -> Indeterminate \X Indeterminate] :
       particleVelocity' = InertiaWeightUpdate(d1, d2, g)
  /\ updates' = updates + 1
  /\ pc' = "position"
  /\ UNCHANGED <<config, calls, iterate, particlePosition, bests, currentObjective,
                 i, k, exit, result, evaluated, sweep, first, moves>>

\* particlePosition = particlePosition + particleVelocity.
UpdatePosition ==
  /\ pc = "position"
  /\ particlePosition' =
       [p \in 1..dimension |-> MatAdd(particlePosition[p], particleVelocity[p])]
  /\ moves' = moves + 1
  /\ pc' = "tolerance"
  /\ UNCHANGED <<config, calls, iterate, particleVelocity, bests, currentObjective,
                 i, k, exit, result, evaluated, sweep, first, updates>>

\* Variant: the tolerance test reads the best value so far.
ToleranceOperandBest == lastObjectiveGlobal

\* The value the tolerance test reads and the early return gives back.
ToleranceOperand == currentObjective

\* Variant: the operands of the tolerance test exchanged.
ToleranceTestSwapped == FLess(tolerance, ToleranceOperand)

\* The condition of if (currentObjective < tolerance).
ToleranceTest == FLess(ToleranceOperand, tolerance)

\* The condition holds: return currentObjective.
ReturnTolerance ==
  /\ pc = "tolerance"
  /\ ToleranceTest
  /\ result' = ToleranceOperand
  /\ exit' = "tolerance"
  /\ pc' = "done"
  /\ UNCHANGED <<config, calls, iterate, swarm, bests, currentObjective,
                 i, k, history>>

\* Otherwise ++i and back to the loop condition.
NextIteration ==
  /\ pc = "tolerance"
  /\ ~ToleranceTest
  /\ i' = i + 1
  /\ pc' = "loop"
  /\ UNCHANGED <<config, calls, iterate, swarm, bests, currentObjective,
                 k, exit, result, history>>

Next ==
  \/ Begin
  \/ EnterIteration
  \/ ReturnGlobal
  \/ Evaluate
  \/ UpdateGlobal
  \/ UpdateVelocity
  \/ UpdatePosition
  \/ ReturnTolerance
  \/ NextIteration

Spec == Init /\ [][Next]_vars

\* ------------------------------------------------------------ properties

\* Optimize has returned.
Returned == pc = "done"

\* v * t, elementwise: the matrix M scaled by the integer t.
Scaled(M, t) == Mat(M.n_rows, M.n_cols, [j \in 1..n_elem(M) |-> FMul(M.mem[j], t)])

\* The row and the column (from 0) of the j-th stored element of M.
RowOf(M, j) == (j - 1) % M.n_rows

ColOf(M, j) == (j - 1) \div M.n_rows

\* C1: when Optimize returns, by either exit, the caller's starting point
\* holds the best position of the swarm, the position at which the lowest
\* objective value of the call was evaluated.
C1_IterateHoldsBest == Returned => iterate = bestSwarmPosition

\* C2: with maxIterations = 0 the iterations are unlimited: Optimize
\* returns only through the tolerance test, never because a count of
\* iterations was reached.
C2_ZeroIsUnlimited == (Returned /\ maxIterations = 0) => exit = "tolerance"

\* C3: when every value evaluated is finite, then from the best-update
\* step of an iteration until the next evaluation lastObjectiveGlobal is at
\* most every objective value evaluated so far in the call; and no step of
\* the call increases lastObjectiveGlobal.
C3_GlobalBestLowest ==
  [][ /\ (pc' \notin {"call", "evaluate"} /\ NaN \notin evaluated')
           => \A v \in evaluated' : lastObjectiveGlobal' <= v
      /\ pc # "call" => lastObjectiveGlobal' <= lastObjectiveGlobal ]_vars

\* The best-update step of the second iteration has run and the global best
\* is lower than the first value evaluated.
C3_Witness ==
  /\ pc = "velocity"
  /\ i = 1
  /\ NaN \notin evaluated
  /\ Cardinality(evaluated) >= 2
  /\ lastObjectiveGlobal < first

\* The velocities the entry-by-entry formula gives for the draws d1, d2.
EntrywiseUpdate(d1, d2) ==
  [p \in 1..dimension |->
     Mat(iterate.n_rows, iterate.n_cols,
         [j \in 1..n_elem(iterate) |->
            LET r == RowOf(iterate, j)
                c == ColOf(iterate, j)
            IN FAdd(FAdd(FMul(interiaWeight, At(particleVelocity[p], r, c)),
                         FMul(FScale(cognitiveAcceleration, At(d1, r, c)),
                              FSub(At(bestParticlePosition, r, c),
                                   At(particlePosition[p], r, c)))),
                    FMul(FScale(socialAcceleration, At(d2, r, c)),
                         FSub(At(bestSwarmPosition, r, c),
                              At(particlePosition[p], r, c))))])]

\* C4: Update sets every entry (r, c) of every particle's velocity to
\* w*velocity(r,c) + c1*r1(r,c)*(personalBest(r,c) - position(r,c))
\* + c2*r2(r,c)*(globalBest(r,c) - position(r,c)), r1 and r2 being the two
\* matrices of draws of the call.
C4_EntrywiseVelocity ==
  [][ (pc = "velocity" /\ pc' = "position")
        => \E d1 \in Randu(iterate.n_rows, iterate.n_cols),
              d2 \in Randu(iterate.n_rows, iterate.n_cols) :
             particleVelocity' = EntrywiseUpdate(d1, d2) ]_vars

\* A second iteration is running.
InSecondIteration == i >= 1 /\ pc \in {"evaluate", "velocity", "position", "tolerance"}

\* C5 as written: if the very first evaluation (first particle, first
\* iteration) is below tolerance, Optimize returns that value and runs no
\* second iteration.
C5_FirstEvaluationStops ==
  (calls >= 1 /\ FLess(first, tolerance))
    => /\ ~InSecondIteration
       /\ Returned => result = first

\* C5 as amended: if the last evaluation of the first iteration (particle
\* dimension - 1) is below tolerance, the tolerance test of the first
\* iteration returns that value, so that no second iteration runs.
C5_LastEvaluationStops ==
  [][ (pc = "tolerance" /\ i = 0 /\ FLess(sweep[dimension], tolerance))
        => (pc' = "done" /\ exit' = "tolerance" /\ result' = sweep[dimension]) ]_vars

\* Optimize returned from the first iteration of a swarm of several
\* particles, on the value its last particle gave.
C5_Witness ==
  /\ Returned
  /\ exit = "tolerance"
  /\ i = 0
  /\ dimension >= 2
  /\ moves = 1
  /\ FLess(sweep[dimension], tolerance)
  /\ result = sweep[dimension]

\* C6: when the loop runs through all maxIterations >= 1 iterations,
\* Optimize returns after exactly maxIterations iterations (each one
\* evaluates every particle and moves the swarm once), and the value
\* returned is lastObjectiveGlobal, the lowest value evaluated in the call.
C6_FullRunReturnsBest ==
  (Returned /\ exit = "maxIterations" /\ maxIterations >= 1)
    => /\ calls = maxIterations * dimension
       /\ moves = maxIterations
       /\ result = lastObjectiveGlobal
       /\ result \in evaluated
       /\ \A v \in evaluated : ~FLess(v, result)

\* A full run of at least two iterations of several particles has returned
\* a value lower than the first one evaluated.
C6_Witness ==
  /\ Returned
  /\ exit = "maxIterations"
  /\ maxIterations >= 2
  /\ dimension >= 2
  /\ FLess(result, first)

\* C7: with cognitiveAcceleration = socialAcceleration = 0 and
\* inertiaWeight = 1, every particle's velocity stays the initial velocity
\* (the starting point) and its position after t position updates is the
\* starting point plus t times that velocity.
C7_ZeroVelocityStability ==
  (pc # "call" /\ interiaWeight = 1 /\ cognitiveAcceleration = 0
     /\ socialAcceleration = 0)
    => \A p \in 1..dimension :
         /\ particleVelocity[p] = iterate
         /\ particlePosition[p] = MatAdd(iterate, Scaled(iterate, moves))

\* C8: the tolerance test is made once per iteration, after the velocity
\* and position updates of that iteration, on the value of the last
\* particle evaluated in it: Optimize returns from the test if and only if
\* that value is below tolerance, and then returns that value.
C8_ToleranceOnLastEvaluated ==
  [][ (pc = "tolerance")
        => /\ Len(sweep) = dimension
           /\ updates = i + 1
           /\ moves = i + 1
           /\ (pc' = "done") <=> FLess(sweep[dimension], tolerance)
           /\ (pc' = "done") => (exit' = "tolerance" /\ result' = sweep[dimension])
           /\ (pc' # "done") => (pc' = "loop" /\ i' = i + 1) ]_vars

\* Optimize returned through the tolerance test although another particle
\* of the same iteration had given a lower value.
C8_Witness ==
  /\ Returned
  /\ exit = "tolerance"
  /\ result = sweep[dimension]
  /\ \E j \in 1..Len(sweep) : FLess(sweep[j], result)

\* C9: whenever Update is about to be invoked, the individual best and the
\* global best coincide, in value and in position.
C9_BestsCoincide ==
  pc = "velocity"
    => /\ lastObjectiveIndividual = lastObjectiveGlobal
       /\ bestParticlePosition = bestSwarmPosition

\* Update is about to be invoked in a later iteration of a swarm of several
\* particles, after the best position has left the starting point.
C9_Witness ==
  /\ pc = "velocity"
  /\ dimension >= 2
  /\ i >= 1
  /\ bestSwarmPosition # iterate
  /\ bestParticlePosition = bestSwarmPosition

\* C10: every element Update reads of bestParticlePosition and of
\* bestSwarmPosition exists: each particle index used as element index is
\* below the number of elements of the matrix.
C10_ReadsInBounds ==
  pc = "velocity"
    => \A p \in 0..(dimension - 1) :
         p < n_elem(bestParticlePosition) /\ p < n_elem(bestSwarmPosition)

====
